---- MODULE Spec2Model ----
(***************************************************************************)
(* Model of the submission core of the telemetry client:                   *)
(*   - BaseBackend (basebackend.ts): routing of sendEvent / sendSession    *)
(*     between the legacy transport and the new envelope transport;        *)
(*   - the session entity of packages/hub/src/session.ts: makeSession,     *)
(*     updateSession, closeSession.                                        *)
(* The two halves share no state; SpecBackend and SpecSession each run one *)
(* half and leave the other half at its initial value.                     *)
(***************************************************************************)
EXTENDS Integers, Sequences, FiniteSets, TLC

VARIABLES
  options,       \* BaseBackend._options: dsn present?, _experiments.newTransport
  newTransport,  \* BaseBackend._newTransport is set
  transport,     \* BaseBackend._transport, as _setupTransport returned it
  debugBuild,    \* what isDebugBuild() returns in this build
  calls,         \* the sendEvent / sendSession calls made so far, in order
  at,            \* the configuration the most recent of these calls ran under
  got,           \* what the most recent getTransport() call returned
  session,       \* the SessionContext object
  clock,         \* the last value timestampInSeconds() returned
  uuids,         \* how many ids uuid4() has generated
  last           \* the last session operation: its name, its arguments, the
                 \* session its updateSession call started from, its result

backendVars == <<options, newTransport, transport, debugBuild, calls, at, got>>
sessionVars == <<session, clock, uuids, last>>
vars == <<options, newTransport, transport, debugBuild, calls, at, got, session, clock, uuids, last>>

(***************************************************************************)
(* Bounds of the model.                                                    *)
(***************************************************************************)
MaxCalls == 2       \* submissions per backend
MaxEnvelopes == 2   \* envelopes createSessionEnvelope may produce for one session
MaxOps == 2         \* updateSession / closeSession calls after makeSession
MaxClock == 2       \* the largest value the clock reaches

(***************************************************************************)
(*                              BaseBackend                                *)
(***************************************************************************)

\* The legacy transports a backend can own. NoopTransport implements sendEvent
\* only; a transport returned by an overriding _setupTransport may or may not
\* implement sendSession.
NoopTransport == [kind |-> "noop", hasSendSession |-> FALSE]

CustomTransports == {[kind |-> "custom", hasSendSession |-> b] : b \in BOOLEAN}

\* _setupTransport(): the default hook returns the no-op transport, a subclass
\* may return its own.
SetupTransport == {NoopTransport} \cup CustomTransports

OptionsSet == [dsn : BOOLEAN, experiments : {"absent", "off", "on"}]

\* The condition of the if-else in sendEvent and sendSession.
UseNewTransportMutNoDsn(opts, newT) == newT /\ opts.experiments = "on"

UseNewTransport(opts, newT) ==
  /\ newT
  /\ opts.dsn
  /\ opts.experiments # "absent"
  /\ opts.experiments = "on"

\* What a transport method can do while it is being invoked: return its
\* asynchronous outcome, or fail before it returns one. The no-op transport
\* always returns.
SyncOutcomes(target, tr) ==
  IF target = "legacy" /\ tr.kind = "noop" THEN {"returns"} ELSE {"returns", "throws"}

\* How a returned asynchronous outcome can settle. The no-op transport resolves.
AsyncOutcomes(target, tr) ==
  IF target = "legacy" /\ tr.kind = "noop" THEN {"resolved"} ELSE {"resolved", "rejected"}

\* createEventEnvelope(event, api): one envelope wrapping the event.
CreateEventEnvelope(e) == [kind |-> "eventEnvelope", of |-> e, item |-> 1]

\* createSessionEnvelope(session, api): a sequence of n >= 1 envelopes.
CreateSessionEnvelope(s, n) == [i \in 1..n |-> [kind |-> "sessionEnvelope", of |-> s, item |-> i]]

Send(target, method, payload) == [target |-> target, method |-> method, payload |-> payload]

\* The record of one submission: what was invoked, what was logged, whether an
\* exception reached the caller, and the state of the asynchronous outcome.
Call(op, id, sends, produced, warns, sync) ==
  [op |-> op, of |-> id,
   sends |-> sends, produced |-> produced, warns |-> warns,
   raised |-> (sync = "throws"),
   promise |-> IF sync = "returns" THEN "pending" ELSE "none",
   errors |-> 0]

\* logger.warn / logger.error are reached only behind isDebugBuild().
Logged(debug) == IF debug THEN 1 ELSE 0

\* The configuration a call reads: _newTransport, _options.dsn and
\* _options._experiments.newTransport.
Config(opts, newT) == [newT |-> newT, dsn |-> opts.dsn, flag |-> opts.experiments = "on"]

\* The transport invocation of sendEvent(event).
EventSendsMutBoth(e, opts, newT) ==
  IF UseNewTransport(opts, newT)
    THEN <<Send("new", "send", CreateEventEnvelope(e)),
           Send("legacy", "sendEvent", [kind |-> "event", of |-> e, item |-> 0])>>
    ELSE <<Send("legacy", "sendEvent", [kind |-> "event", of |-> e, item |-> 0])>>

EventSends(e, opts, newT) ==
  IF UseNewTransport(opts, newT)
    THEN <<Send("new", "send", CreateEventEnvelope(e))>>
    ELSE <<Send("legacy", "sendEvent", [kind |-> "event", of |-> e, item |-> 0])>>

\* The transport invocation of sendSession(session) once the capability check
\* has passed; n is the number of envelopes createSessionEnvelope produces.
SessionSendsMutAll(s, n, opts, newT) ==
  IF UseNewTransport(opts, newT)
    THEN [i \in 1..n |-> Send("new", "send", CreateSessionEnvelope(s, n)[i])]
    ELSE <<Send("legacy", "sendSession", [kind |-> "session", of |-> s, item |-> 0])>>

SessionSends(s, n, opts, newT) ==
  IF UseNewTransport(opts, newT)
    THEN <<Send("new", "send", Head(CreateSessionEnvelope(s, n)))>>
    ELSE <<Send("legacy", "sendSession", [kind |-> "session", of |-> s, item |-> 0])>>

\* The capability check that opens sendSession.
DropsSessionMutAfterRouting(tr, opts, newT) ==
  ~tr.hasSendSession /\ ~UseNewTransport(opts, newT)

DropsSession(tr, opts, newT) == ~tr.hasSendSession

\* The rejection handler attached by .then(null, reason => ...).
OnRejectedMutTwice(c, debug) ==
  [c EXCEPT !.promise = "rejected", !.errors = @ + 2 * Logged(debug)]

OnRejected(c, debug) ==
  [c EXCEPT !.promise = "rejected", !.errors = @ + Logged(debug)]

\* No getTransport() call has returned yet.
NoHandle == [kind |-> "none", hasSendSession |-> FALSE]

\* getTransport(): return this._transport.
GetTransportReturnMutSetupAgain(tr) == NoopTransport

GetTransportReturn(tr) == tr

InitBackend ==
  /\ options \in OptionsSet
  /\ newTransport \in BOOLEAN
  /\ transport \in SetupTransport
  /\ debugBuild \in BOOLEAN
  /\ calls = <<>>
  /\ at = Config(options, newTransport)
  /\ got = NoHandle

\* sendEvent(event)
SendEvent ==
  /\ Len(calls) < MaxCalls
  /\ LET e == Len(calls) + 1
         sends == EventSends(e, options, newTransport)
     IN \E sync \in SyncOutcomes(sends[Len(sends)].target, transport) :
          calls' = Append(calls, Call("sendEvent", e, sends, 0, 0, sync))
  /\ at' = Config(options, newTransport)
  /\ UNCHANGED <<options, newTransport, transport, debugBuild, got>>
  /\ UNCHANGED sessionVars

\* sendSession(session)
SendSession ==
  /\ Len(calls) < MaxCalls
  /\ LET s == Len(calls) + 1
     IN IF DropsSession(transport, options, newTransport)
          THEN calls' = Append(calls, [Call("sendSession", s, <<>>, 0,
                                            Logged(debugBuild), "returns")
                                        EXCEPT !.promise = "none"])
          ELSE \E n \in 1..MaxEnvelopes :
                 LET sends == SessionSends(s, n, options, newTransport)
                     produced == IF UseNewTransport(options, newTransport) THEN n ELSE 0
                 IN \E sync \in SyncOutcomes(sends[Len(sends)].target, transport) :
                      calls' = Append(calls, Call("sendSession", s, sends, produced, 0, sync))
  /\ at' = Config(options, newTransport)
  /\ UNCHANGED <<options, newTransport, transport, debugBuild, got>>
  /\ UNCHANGED sessionVars

\* The asynchronous outcome of an earlier submission settles, after the
\* submitting call has returned.
Settle ==
  /\ \E i \in 1..Len(calls) :
       /\ calls[i].promise = "pending"
       /\ \E out \in AsyncOutcomes(calls[i].sends[1].target, transport) :
            calls' = [calls EXCEPT ![i] = IF out = "rejected"
                                            THEN OnRejected(@, debugBuild)
                                            ELSE [@ EXCEPT !.promise = "resolved"]]
  /\ UNCHANGED <<options, newTransport, transport, debugBuild, at, got>>
  /\ UNCHANGED sessionVars

\* The options object is mutable between calls.
Reconfigure ==
  /\ \E o \in OptionsSet :
       /\ o # options
       /\ options' = o
  /\ UNCHANGED <<newTransport, transport, debugBuild, calls, at, got>>
  /\ UNCHANGED sessionVars

\* A subclass sets or clears the protected _newTransport field.
SetNewTransport ==
  /\ newTransport' = ~newTransport
  /\ UNCHANGED <<options, transport, debugBuild, calls, at, got>>
  /\ UNCHANGED sessionVars

\* getTransport()
GetTransport ==
  /\ got' = GetTransportReturn(transport)
  /\ UNCHANGED <<options, newTransport, transport, debugBuild, calls, at>>
  /\ UNCHANGED sessionVars

(***************************************************************************)
(*                       JavaScript values                                 *)
(* A value carries its typeof tag t; a number its value n; a string its    *)
(* text s and its length n; a boolean n = 1 for true.                      *)
(***************************************************************************)
Undef == [t |-> "undefined", n |-> 0, s |-> ""]

Num(k) == [t |-> "number", n |-> k, s |-> ""]

Str(x, len) == [t |-> "string", n |-> len, s |-> x]

Bool(b) == [t |-> "boolean", n |-> IF b THEN 1 ELSE 0, s |-> ""]

\* ToBoolean: undefined, 0, "" and false are falsy.
Truthy(v) ==
  CASE v.t = "undefined" -> FALSE
    [] v.t = "number" -> v.n # 0
    [] v.t = "string" -> v.n # 0
    [] v.t = "boolean" -> v.n = 1

\* a || b
Or(a, b) == IF Truthy(a) THEN a ELSE b

Digits(k) == IF k < 0 THEN 2 ELSE 1

\* `${v}` for a string or a one-digit number
Stringify(v) == IF v.t = "number" THEN Str(ToString(v.n), Digits(v.n)) ELSE v

\* uuid4(): the k-th generated id, 32 characters, different from every other id
Uuid4(k) == Str("uuid" \o ToString(k), 32)

(***************************************************************************)
(*                              Session                                    *)
(***************************************************************************)
NoUser == [present |-> FALSE, ip_address |-> Undef, id |-> Undef, email |-> Undef, username |-> Undef]

\* context = {}
EmptyCtx ==
  [user |-> NoUser, timestamp |-> Undef, ignoreDuration |-> Undef, sid |-> Undef,
   init |-> Undef, did |-> Undef, started |-> Undef, duration |-> Undef,
   release |-> Undef, environment |-> Undef, ipAddress |-> Undef, userAgent |-> Undef,
   errors |-> Undef, status |-> Undef]

\* The session variable before makeSession has run.
NoSession ==
  [sid |-> Undef, did |-> Undef, started |-> Undef, timestamp |-> Undef, duration |-> Undef,
   status |-> Undef, init |-> Undef, errors |-> Undef, ignoreDuration |-> Undef,
   ipAddress |-> Undef, userAgent |-> Undef, release |-> Undef, environment |-> Undef]

\* Does updateSession(session, context) call timestampInSeconds() / uuid4() ?
ReadsClock(ctx) == ~Truthy(ctx.timestamp)

GeneratesSid(ctx) == Truthy(ctx.sid) /\ ctx.sid.n # 32

\* if (context.user) { ... }
MergeUserMutNoIpGuard(s, ctx) ==
  IF ctx.user.present
    THEN [s EXCEPT
            !.ipAddress = IF Truthy(ctx.user.ip_address) THEN ctx.user.ip_address ELSE @,
            !.did = IF ~Truthy(s.did) /\ ~Truthy(ctx.did)
                      THEN Or(ctx.user.id, Or(ctx.user.email, ctx.user.username)) ELSE @]
    ELSE s

MergeUser(s, ctx) ==
  IF ctx.user.present
    THEN [s EXCEPT
            !.ipAddress = IF ~Truthy(s.ipAddress) /\ Truthy(ctx.user.ip_address)
                            THEN ctx.user.ip_address ELSE @,
            !.did = IF ~Truthy(s.did) /\ ~Truthy(ctx.did)
                      THEN Or(ctx.user.id, Or(ctx.user.email, ctx.user.username)) ELSE @]
    ELSE s

\* if (context.sid) { session.sid = context.sid.length === 32 ? context.sid : uuid4(); }
MergeSidMutNoLengthCheck(sid, ctx, k) == IF Truthy(ctx.sid) THEN ctx.sid ELSE sid

MergeSidMutAlwaysFresh(sid, ctx, k) ==
  IF Truthy(ctx.sid) /\ ctx.sid.n = 32 THEN ctx.sid ELSE Uuid4(k)

MergeSidMutAtLeast32(sid, ctx, k) ==
  IF Truthy(ctx.sid)
    THEN IF ctx.sid.n >= 32 THEN ctx.sid ELSE Uuid4(k)
    ELSE sid

MergeSid(sid, ctx, k) ==
  IF Truthy(ctx.sid)
    THEN IF ctx.sid.n = 32 THEN ctx.sid ELSE Uuid4(k)
    ELSE sid

\* The duration branch: session is the session with timestamp, ignoreDuration
\* and started already merged.
MergeDurationMutNoClamp(s, ctx) ==
  IF Truthy(s.ignoreDuration)
    THEN Undef
    ELSE IF ctx.duration.t = "number"
           THEN ctx.duration
           ELSE Num(s.timestamp.n - s.started.n)

MergeDurationMutExplicitFirst(s, ctx) ==
  IF ctx.duration.t = "number"
    THEN ctx.duration
    ELSE IF Truthy(s.ignoreDuration)
           THEN Undef
           ELSE LET duration == s.timestamp.n - s.started.n
                IN Num(IF duration >= 0 THEN duration ELSE 0)

MergeDurationMutSwapped(s, ctx) ==
  IF Truthy(s.ignoreDuration)
    THEN Undef
    ELSE IF ctx.duration.t = "number"
           THEN ctx.duration
           ELSE LET duration == s.timestamp.n - s.started.n
                IN Num(IF duration >= 0 THEN 0 ELSE duration)

MergeDuration(s, ctx) ==
  IF Truthy(s.ignoreDuration)
    THEN Undef
    ELSE IF ctx.duration.t = "number"
           THEN ctx.duration
           ELSE LET duration == s.timestamp.n - s.started.n
                IN Num(IF duration >= 0 THEN duration ELSE 0)

\* updateSession(session, context): now is what timestampInSeconds() returns if
\* it is called, k the index of the id uuid4() returns if it is called.
UpdateSession(s, ctx, now, k) ==
  LET s1 == MergeUser(s, ctx)
      s2 == [s1 EXCEPT
               !.timestamp = Or(ctx.timestamp, Num(now)),
               !.ignoreDuration = IF Truthy(ctx.ignoreDuration) THEN ctx.ignoreDuration ELSE @,
               !.sid = MergeSid(@, ctx, k),
               !.init = IF ctx.init # Undef THEN ctx.init ELSE @,
               !.did = IF ~Truthy(@) /\ Truthy(ctx.did) THEN Stringify(ctx.did) ELSE @,
               !.started = IF ctx.started.t = "number" THEN ctx.started ELSE @]
      s3 == [s2 EXCEPT !.duration = MergeDuration(s2, ctx)]
  IN [s3 EXCEPT
        !.release = IF Truthy(ctx.release) THEN ctx.release ELSE @,
        !.environment = IF Truthy(ctx.environment) THEN ctx.environment ELSE @,
        !.ipAddress = IF ~Truthy(@) /\ Truthy(ctx.ipAddress) THEN ctx.ipAddress ELSE @,
        !.userAgent = IF ~Truthy(@) /\ Truthy(ctx.userAgent) THEN ctx.userAgent ELSE @,
        !.errors = IF ctx.errors.t = "number" THEN ctx.errors ELSE @,
        !.status = IF Truthy(ctx.status) THEN ctx.status ELSE @]

\* The session literal of makeSession: startingTime is the clock read, k the id.
NewSessionMutNotInit(startingTime, k) ==
  [NoSession EXCEPT
     !.timestamp = Num(startingTime), !.started = Num(startingTime), !.sid = Uuid4(k),
     !.errors = Num(0), !.duration = Num(0), !.status = Str("ok", 2),
     !.init = Bool(FALSE), !.ignoreDuration = Bool(FALSE)]

NewSession(startingTime, k) ==
  [NoSession EXCEPT
     !.timestamp = Num(startingTime), !.started = Num(startingTime), !.sid = Uuid4(k),
     !.errors = Num(0), !.duration = Num(0), !.status = Str("ok", 2),
     !.init = Bool(TRUE), !.ignoreDuration = Bool(FALSE)]

\* The context closeSession hands to updateSession; status is Undef when the
\* caller gives none.
CloseCtxMutOnlyWhenOk(s, status) ==
  IF s.status = Str("ok", 2)
    THEN [EmptyCtx EXCEPT !.status = IF Truthy(status) THEN status ELSE Str("exited", 6)]
    ELSE EmptyCtx

CloseCtxMutAlwaysExited(s, status) ==
  IF Truthy(status)
    THEN [EmptyCtx EXCEPT !.status = status]
    ELSE [EmptyCtx EXCEPT !.status = Str("exited", 6)]

CloseCtx(s, status) ==
  IF Truthy(status)
    THEN [EmptyCtx EXCEPT !.status = status]
    ELSE IF s.status = Str("ok", 2)
           THEN [EmptyCtx EXCEPT !.status = Str("exited", 6)]
           ELSE EmptyCtx

\* new Date(seconds * 1000).toISOString(): the 24-character ISO-8601 text of
\* that many milliseconds since the epoch.
ToISOString(ms) == Str("iso:" \o ToString(ms), 24)

\* The object literal sessionToJSON hands to dropUndefinedKeys.
JSONLiteralMutDidAlways(s) ==
  [sid |-> Stringify(s.sid),
   init |-> s.init,
   started |-> ToISOString(s.started.n * 1000),
   timestamp |-> ToISOString(s.timestamp.n * 1000),
   status |-> s.status,
   errors |-> s.errors,
   did |-> IF s.did = Undef THEN Str("undefined", 9) ELSE Stringify(s.did),
   duration |-> s.duration,
   attrs |-> [release |-> s.release, environment |-> s.environment,
              ip_address |-> s.ipAddress, user_agent |-> s.userAgent]]

JSONLiteral(s) ==
  [sid |-> Stringify(s.sid),
   init |-> s.init,
   started |-> ToISOString(s.started.n * 1000),
   timestamp |-> ToISOString(s.timestamp.n * 1000),
   status |-> s.status,
   errors |-> s.errors,
   did |-> IF s.did.t = "number" \/ s.did.t = "string" THEN Stringify(s.did) ELSE Undef,
   duration |-> s.duration,
   attrs |-> [release |-> s.release, environment |-> s.environment,
              ip_address |-> s.ipAddress, user_agent |-> s.userAgent]]

\* dropUndefinedKeys(obj): top and attrs are the keys that remain at the top
\* level and inside attrs; attrs itself remains only if one of its members does.
DropUndefinedKeys(obj) ==
  LET inner == {k \in DOMAIN obj.attrs : obj.attrs[k] # Undef}
  IN [top |-> {k \in DOMAIN obj \ {"attrs"} : obj[k] # Undef}
               \cup (IF inner # {} THEN {"attrs"} ELSE {}),
      attrs |-> inner,
      val |-> obj]

\* sessionToJSON(session)
SessionToJSON(s) == DropUndefinedKeys(JSONLiteral(s))

\* No sessionToJSON result.
NoJSON == [top |-> {}, attrs |-> {}, val |-> JSONLiteral(NoSession)]

(***************************************************************************)
(* The contexts (partials) the session operations are called with: the     *)
(* empty one, every context carrying one field, and the pairs of fields    *)
(* whose handling interacts.                                               *)
(***************************************************************************)
Ok == Str("ok", 2)

Exited == Str("exited", 6)

Crashed == Str("crashed", 7)

Abnormal == Str("abnormal", 8)

Users ==
  {[NoUser EXCEPT !.present = TRUE],
   [NoUser EXCEPT !.present = TRUE, !.ip_address = Str("2.2.2.2", 7)],
   [NoUser EXCEPT !.present = TRUE, !.id = Str("u1", 2)],
   [NoUser EXCEPT !.present = TRUE, !.id = Num(9)],
   [NoUser EXCEPT !.present = TRUE, !.email = Str("a@b", 3)],
   [NoUser EXCEPT !.present = TRUE, !.username = Str("bob", 3)],
   [NoUser EXCEPT !.present = TRUE, !.id = Str("u1", 2), !.email = Str("a@b", 3)]}

FieldValues ==
  {<<"timestamp", Num(0)>>, <<"timestamp", Num(5)>>,
   <<"ignoreDuration", Bool(TRUE)>>, <<"ignoreDuration", Bool(FALSE)>>,
   <<"sid", Str("", 0)>>, <<"sid", Str("short", 5)>>, <<"sid", Str("long", 33)>>,
   <<"sid", Str("given", 32)>>,
   <<"init", Bool(FALSE)>>,
   <<"did", Str("", 0)>>, <<"did", Str("d1", 2)>>, <<"did", Num(7)>>, <<"did", Num(0)>>,
   <<"started", Num(0)>>, <<"started", Num(4)>>, <<"started", Str("4", 1)>>,
   <<"duration", Num(0)>>, <<"duration", Num(7)>>, <<"duration", Num(-2)>>,
   <<"duration", Str("7", 1)>>,
   <<"release", Str("", 0)>>, <<"release", Str("1.0.0", 5)>>,
   <<"environment", Str("prod", 4)>>,
   <<"ipAddress", Str("1.1.1.1", 7)>>,
   <<"userAgent", Str("ua", 2)>>, <<"userAgent", Str("ua2", 3)>>,
   <<"errors", Num(0)>>, <<"errors", Num(5)>>, <<"errors", Str("5", 1)>>,
   <<"status", Ok>>, <<"status", Exited>>, <<"status", Crashed>>, <<"status", Abnormal>>}

FieldPairs ==
  {<<<<"ignoreDuration", Bool(TRUE)>>, <<"duration", Num(7)>>>>,
   <<<<"timestamp", Num(1)>>, <<"started", Num(4)>>>>,
   <<<<"timestamp", Num(5)>>, <<"duration", Num(7)>>>>}

Ctxs ==
  {EmptyCtx}
    \cup {[EmptyCtx EXCEPT ![fv[1]] = fv[2]] : fv \in FieldValues}
    \cup {[EmptyCtx EXCEPT ![p[1][1]] = p[1][2], ![p[2][1]] = p[2][2]] : p \in FieldPairs}
    \cup {[EmptyCtx EXCEPT !.user = u] : u \in Users}
    \cup {[EmptyCtx EXCEPT !.user = [NoUser EXCEPT !.present = TRUE, !.id = Str("u1", 2)],
                            !.did = Str("d1", 2)]}

\* makeSession's parameter type omits started and status.
MakeCtxs == {c \in Ctxs : c.started = Undef /\ c.status = Undef}

\* closeSession's status argument: absent, or a status other than ok.
CloseStatuses == {Undef, Exited, Crashed, Abnormal}

\* The values the next timestampInSeconds() call can return.
Ticks(c) == {x \in {c, c + 1} : x <= MaxClock}

NoLast == [op |-> "none", hasCtx |-> FALSE, ctx |-> EmptyCtx, status |-> Undef,
           pre |-> NoSession, n |-> 0, out |-> NoJSON]

InitSession ==
  /\ session = NoSession
  /\ clock = 1
  /\ uuids = 0
  /\ last = NoLast

\* makeSession() without a context
MakeSessionBare ==
  /\ last.op = "none"
  /\ \E t0 \in Ticks(clock) :
       /\ session' = NewSession(t0, uuids + 1)
       /\ clock' = t0
       /\ uuids' = uuids + 1
       /\ last' = [NoLast EXCEPT !.op = "makeSession"]
  /\ UNCHANGED backendVars

\* makeSession(context)
MakeSessionCtx ==
  /\ last.op = "none"
  /\ \E ctx \in MakeCtxs, t0 \in Ticks(clock) :
       \E t1 \in IF ReadsClock(ctx) THEN Ticks(t0) ELSE {t0} :
         /\ session' = UpdateSession(NewSession(t0, uuids + 1), ctx, t1, uuids + 2)
         /\ clock' = t1
         /\ uuids' = uuids + 1 + (IF GeneratesSid(ctx) THEN 1 ELSE 0)
         /\ last' = [NoLast EXCEPT !.op = "makeSession", !.hasCtx = TRUE, !.ctx = ctx,
                                   !.pre = NewSession(t0, uuids + 1)]
  /\ UNCHANGED backendVars

\* updateSession(session, context)
UpdateSessionOp ==
  /\ last.op # "none"
  /\ last.n < MaxOps
  /\ \E ctx \in Ctxs :
       \E t \in IF ReadsClock(ctx) THEN Ticks(clock) ELSE {clock} :
         /\ session' = UpdateSession(session, ctx, t, uuids + 1)
         /\ clock' = t
         /\ uuids' = uuids + (IF GeneratesSid(ctx) THEN 1 ELSE 0)
         /\ last' = [NoLast EXCEPT !.op = "updateSession", !.hasCtx = TRUE, !.ctx = ctx,
                                   !.pre = session, !.n = last.n + 1]
  /\ UNCHANGED backendVars

\* closeSession(session, status?)
CloseSessionOp ==
  /\ last.op # "none"
  /\ last.n < MaxOps
  /\ \E status \in CloseStatuses, t \in Ticks(clock) :
       /\ session' = UpdateSession(session, CloseCtx(session, status), t, uuids + 1)
       /\ clock' = t
       /\ UNCHANGED uuids
       /\ last' = [NoLast EXCEPT !.op = "closeSession", !.status = status,
                                 !.ctx = CloseCtx(session, status),
                                 !.pre = session, !.n = last.n + 1]
  /\ UNCHANGED backendVars

\* sessionToJSON(session): the session is left as it is.
SessionToJSONOp ==
  /\ last.op \notin {"none", "sessionToJSON"}
  /\ last' = [NoLast EXCEPT !.op = "sessionToJSON", !.n = last.n,
                            !.out = SessionToJSON(session)]
  /\ UNCHANGED <<session, clock, uuids>>
  /\ UNCHANGED backendVars

(***************************************************************************)
(*                           Specifications                                *)
(***************************************************************************)
Init == InitBackend /\ InitSession

NextBackend == SendEvent \/ SendSession \/ Settle \/ Reconfigure \/ SetNewTransport

NextSession == MakeSessionBare \/ MakeSessionCtx \/ UpdateSessionOp \/ CloseSessionOp

Next == NextBackend \/ GetTransport \/ NextSession \/ SessionToJSONOp

Spec == Init /\ [][Next]_vars

\* The backend alone: no session operation runs.
SpecBackend == Init /\ [][NextBackend]_vars

\* The session alone, for one build and configuration of the backend.
InitS ==
  /\ InitSession
  /\ options = [dsn |-> FALSE, experiments |-> "absent"]
  /\ newTransport = FALSE
  /\ transport = NoopTransport
  /\ debugBuild = FALSE
  /\ calls = <<>>
  /\ at = Config(options, newTransport)
  /\ got = NoHandle

SpecSession == InitS /\ [][NextSession]_vars

\* The session with its serializer: sessionToJSON between the session calls.
NextSessionJSON == NextSession \/ SessionToJSONOp

SpecSessionJSON == InitS /\ [][NextSessionJSON]_vars

\* The backend with its accessor: sendEvent, sendSession and their outcomes
\* interleaved with getTransport(), under each configuration.
NextBackendGet == SendEvent \/ SendSession \/ Settle \/ GetTransport

SpecBackendGet == Init /\ [][NextBackendGet]_vars

(***************************************************************************)
(*                     Properties of BaseBackend                           *)
(***************************************************************************)
LastCall == calls[Len(calls)]

\* new transport configured AND dsn present AND newTransport flag enabled,
\* in the configuration the most recent call ran under
NewPathAt == at.newT /\ at.dsn /\ at.flag

LegacyEvent(c) == Send("legacy", "sendEvent", [kind |-> "event", of |-> c.of, item |-> 0])

LegacySession(c) == Send("legacy", "sendSession", [kind |-> "session", of |-> c.of, item |-> 0])

\* C1: every sendEvent call invokes exactly one transport send method: the new
\* transport's send(envelope) if and only if a new transport, a dsn and the
\* newTransport flag are all present when the call is made, and the legacy
\* transport's sendEvent(event) otherwise; the choice follows the configuration
\* of that call alone.
C1_SendEventRoutesOnce ==
  (calls # <<>> /\ LastCall.op = "sendEvent") =>
    /\ Len(LastCall.sends) = 1
    /\ NewPathAt =>
         LastCall.sends[1] =
           Send("new", "send", [kind |-> "eventEnvelope", of |-> LastCall.of, item |-> 1])
    /\ ~NewPathAt => LastCall.sends[1] = LegacyEvent(LastCall)

\* Two sendEvent calls of one backend, the earlier routed to the new transport
\* and the later one, after a change of configuration, to the legacy transport.
C1_Witness ==
  /\ Len(calls) = 2
  /\ calls[1].op = "sendEvent" /\ calls[1].sends[1].target = "new"
  /\ calls[2].op = "sendEvent" /\ calls[2].sends[1].target = "legacy"
  /\ at.newT /\ at.flag /\ ~at.dsn

\* C2 as stated: a sendSession call on a legacy transport without sendSession
\* makes no send call and emits exactly one warning.
C2_DropWarnsOnce ==
  \A i \in 1..Len(calls) :
    (calls[i].op = "sendSession" /\ ~transport.hasSendSession) =>
      (calls[i].sends = <<>> /\ calls[i].warns = 1)

\* C2 amended: a sendSession call on a legacy transport without sendSession
\* makes no send call, attaches no outcome handler and logs no error; it emits
\* exactly one warning in a debug build and none in any other build.
C2_DropWarnsOnceInDebugBuild ==
  \A i \in 1..Len(calls) :
    (calls[i].op = "sendSession" /\ ~transport.hasSendSession) =>
      /\ calls[i].sends = <<>>
      /\ calls[i].promise = "none"
      /\ calls[i].errors = 0
      /\ ~calls[i].raised
      /\ calls[i].warns = (IF debugBuild THEN 1 ELSE 0)

\* A session dropped in a debug build although a new transport, a dsn and the
\* flag were all present when it was submitted.
C2_Witness ==
  /\ calls # <<>>
  /\ LastCall.op = "sendSession"
  /\ ~transport.hasSendSession
  /\ NewPathAt
  /\ debugBuild
  /\ LastCall.warns = 1
  /\ LastCall.sends = <<>>

\* C3: when the legacy transport implements sendSession, every sendSession call
\* makes exactly one send call: the new transport's send with the first
\* envelope of createSessionEnvelope if a new transport, a dsn and the flag are
\* all present, and the legacy transport's sendSession(session) otherwise.
C3_SendSessionRoutesOnce ==
  (calls # <<>> /\ LastCall.op = "sendSession" /\ transport.hasSendSession) =>
    /\ Len(LastCall.sends) = 1
    /\ LastCall.warns = 0
    /\ NewPathAt =>
         LastCall.sends[1] =
           Send("new", "send", [kind |-> "sessionEnvelope", of |-> LastCall.of, item |-> 1])
    /\ ~NewPathAt => LastCall.sends[1] = LegacySession(LastCall)

\* A session for which createSessionEnvelope produced more than one envelope
\* and one send call was made.
C3_Witness ==
  /\ calls # <<>>
  /\ LastCall.op = "sendSession"
  /\ transport.hasSendSession
  /\ NewPathAt
  /\ LastCall.produced >= 2
  /\ Len(LastCall.sends) = 1

\* C4 as stated: a rejected asynchronous outcome produces exactly one error log
\* entry for its submission and no exception reaches the caller.
C4_RejectionLogsOnce ==
  \A i \in 1..Len(calls) :
    calls[i].promise = "rejected" => (calls[i].errors = 1 /\ ~calls[i].raised)

\* C4 amended: a rejected asynchronous outcome produces exactly one error log
\* entry for its submission in a debug build and none in any other build; no
\* exception reaches the caller, which returned while the outcome was pending,
\* and no submission whose outcome is not rejected logs an error.
C4_RejectionLogsOnceInDebugBuild ==
  \A i \in 1..Len(calls) :
    /\ calls[i].promise = "rejected" =>
         (calls[i].errors = (IF debugBuild THEN 1 ELSE 0) /\ ~calls[i].raised)
    /\ calls[i].promise # "rejected" => calls[i].errors = 0
    /\ calls[i].promise # "none" => ~calls[i].raised

\* In a debug build, an event sent through the new transport and a session sent
\* through the legacy transport, both rejected and each logged once.
C4_Witness ==
  /\ debugBuild
  /\ Len(calls) = 2
  /\ \E i, j \in 1..2 :
       /\ calls[i].op = "sendEvent" /\ calls[i].promise = "rejected"
       /\ calls[j].op = "sendSession" /\ calls[j].promise = "rejected"
       /\ calls[i].sends[1].target = "new" /\ calls[i].errors = 1
       /\ calls[j].sends[1].target = "legacy" /\ calls[j].errors = 1

\* C5: no call to sendEvent or sendSession raises an exception to its caller,
\* whatever the transport does.
C5_NeverRaises == \A i \in 1..Len(calls) : ~calls[i].raised

\* C6: with no dsn and the default transport setup hook, sendEvent raises no
\* exception and its only delivery attempt is the no-op transport's sendEvent;
\* the new transport's send is not invoked, whatever _newTransport and the flag.
C6_NoDsnOnlyNoop ==
  (calls # <<>> /\ LastCall.op = "sendEvent" /\ ~at.dsn /\ transport = NoopTransport) =>
    /\ ~LastCall.raised
    /\ LastCall.sends = <<LegacyEvent(LastCall)>>
    /\ \A k \in 1..Len(LastCall.sends) : LastCall.sends[k].target # "new"

\* An event submitted with no dsn while a new transport is set and the flag is on.
C6_Witness ==
  /\ calls # <<>>
  /\ LastCall.op = "sendEvent"
  /\ transport = NoopTransport
  /\ ~at.dsn /\ at.newT /\ at.flag
  /\ LastCall.sends = <<LegacyEvent(LastCall)>>
  /\ LastCall.promise = "resolved"

(***************************************************************************)
(*                     Properties of the session                           *)
(***************************************************************************)
\* The last operation ran updateSession(last.pre, last.ctx).
Updated == last.op \in {"updateSession", "closeSession"} \/ (last.op = "makeSession" /\ last.hasCtx)

Max0(x) == IF x >= 0 THEN x ELSE 0

\* C7 as stated: every makeSession call, with or without a partial and
\* whatever the clock does, returns status = ok, init = true, errors = 0,
\* duration = 0 and a sid of length 32.
C7_MakeSessionDefaults ==
  last.op = "makeSession" =>
    /\ session.status = Ok
    /\ session.init = Bool(TRUE)
    /\ session.errors = Num(0)
    /\ session.duration = Num(0)
    /\ session.sid.t = "string" /\ session.sid.n = 32

\* C7 amended: every makeSession call returns status = ok and a sid of length
\* 32. Without a partial it also returns init = true, errors = 0, duration = 0.
\* With a partial, init is partial.init when defined and true otherwise, errors
\* is partial.errors when a number and 0 otherwise, and duration is absent when
\* partial.ignoreDuration is truthy, else partial.duration when a number, else
\* max(0, timestamp - started), which exceeds 0 when the partial gives a later
\* timestamp or the clock advances between the two reads.
C7_MakeSessionMerged ==
  last.op = "makeSession" =>
    /\ session.status = Ok
    /\ session.sid.t = "string" /\ session.sid.n = 32
    /\ ~last.hasCtx =>
         /\ session.init = Bool(TRUE)
         /\ session.errors = Num(0)
         /\ session.duration = Num(0)
    /\ last.hasCtx =>
         /\ session.init = (IF last.ctx.init # Undef THEN last.ctx.init ELSE Bool(TRUE))
         /\ session.errors = (IF last.ctx.errors.t = "number" THEN last.ctx.errors ELSE Num(0))
         /\ session.duration =
              (IF Truthy(last.ctx.ignoreDuration) THEN Undef
               ELSE IF last.ctx.duration.t = "number" THEN last.ctx.duration
               ELSE Num(Max0(session.timestamp.n - session.started.n)))

\* makeSession({}) with the clock advancing between its two reads: duration 1.
C7_Witness ==
  /\ last.op = "makeSession"
  /\ last.hasCtx
  /\ last.ctx = EmptyCtx
  /\ session.timestamp.n = session.started.n + 1
  /\ session.duration = Num(1)

\* C8: after updateSession(session, partial), duration is absent if the
\* post-merge ignoreDuration is true, else partial.duration if that is a number,
\* else max(0, timestamp - started) of the post-merge timestamp and started.
C8_DurationAfterMerge ==
  Updated =>
    session.duration =
      (IF session.ignoreDuration = Bool(TRUE) THEN Undef
       ELSE IF last.ctx.duration.t = "number" THEN last.ctx.duration
       ELSE Num(Max0(session.timestamp.n - session.started.n)))

\* An update that moves started after timestamp: the difference is clamped.
C8_Witness ==
  /\ last.op = "updateSession"
  /\ last.ctx.started = Num(4)
  /\ session.started.n > session.timestamp.n
  /\ session.ignoreDuration = Bool(FALSE)
  /\ session.duration = Num(0)

\* C9: closeSession(session, status?) leaves status equal to the explicit
\* status when one is given, else exited if the status was ok, else the
\* status the session had.
C9_CloseStatus ==
  last.op = "closeSession" =>
    session.status =
      (IF last.status # Undef THEN last.status
       ELSE IF last.pre.status = Ok THEN Exited
       ELSE last.pre.status)

\* Closing an already exited session with crashed.
C9_Witness ==
  /\ last.op = "closeSession"
  /\ last.pre.status = Exited
  /\ last.status = Crashed
  /\ session.status = Crashed

\* The ids uuid4() generated before the last operation.
EarlierUuids == {Uuid4(k) : k \in 1..(uuids - 1)}

\* C10 as stated: an update whose partial supplies a sid of any length other
\* than 32 leaves a freshly generated 32-character sid, neither the input nor
\* the sid the session had.
C10_MalformedSidReplaced ==
  (Updated /\ last.ctx.sid.t = "string" /\ last.ctx.sid.n # 32) =>
    /\ session.sid = Uuid4(uuids)
    /\ session.sid.n = 32
    /\ session.sid # last.ctx.sid
    /\ session.sid # last.pre.sid
    /\ session.sid \notin EarlierUuids

\* C10 amended: an update whose partial supplies a sid of length 1..31 or above
\* 32 leaves a freshly generated 32-character sid, neither the input nor the
\* sid the session had; an empty sid (length 0) counts as no sid and leaves the
\* session's sid unchanged.
C10_NonEmptyMalformedSidReplaced ==
  /\ (Updated /\ last.ctx.sid.t = "string" /\ last.ctx.sid.n \notin {0, 32}) =>
       /\ session.sid = Uuid4(uuids)
       /\ session.sid.n = 32
       /\ session.sid # last.ctx.sid
       /\ session.sid # last.pre.sid
       /\ session.sid \notin EarlierUuids
  /\ (Updated /\ last.ctx.sid.t = "string" /\ last.ctx.sid.n = 0) =>
       session.sid = last.pre.sid

\* A 5-character sid given to a session whose sid was itself generated by an
\* earlier replacement.
C10_Witness ==
  /\ last.op = "updateSession"
  /\ last.ctx.sid = Str("short", 5)
  /\ last.pre.sid = Uuid4(2)
  /\ session.sid = Uuid4(3)

\* C11: in every state reached by makeSession followed by updateSession and
\* closeSession calls with any partials, the session's duration, when present,
\* is not negative.
C11_DurationNeverNegative ==
  (last.op # "none" /\ session.duration.t = "number") => session.duration.n >= 0

\* C12: while a session's ignoreDuration is true its duration is absent: after
\* the update that sets it and after every later updateSession or closeSession
\* call, also one that carries an explicit numeric duration.
C12_IgnoreDurationClearsDuration ==
  /\ (last.op # "none" /\ session.ignoreDuration = Bool(TRUE)) => session.duration = Undef
  /\ (Updated /\ last.pre.ignoreDuration = Bool(TRUE) /\ last.ctx.ignoreDuration # Bool(FALSE)) =>
       (session.ignoreDuration = Bool(TRUE) /\ session.duration = Undef)

\* A session whose ignoreDuration was set by an earlier call is updated with an
\* explicit duration: its duration stays absent.
C12_Witness ==
  /\ last.op = "updateSession"
  /\ last.n = 2
  /\ last.pre.ignoreDuration = Bool(TRUE)
  /\ last.ctx.duration = Num(7)
  /\ session.duration = Undef

C14_WitnessPresent ==
  /\ last.op = "sessionToJSON"
  /\ session.did = Num(9)
  /\ last.out.val.did = Str("9", 1)
  /\ {"did", "duration", "attrs"} \subseteq last.out.top
  /\ last.out.attrs = {"release"}

\* C15: updateSession overwrites each of ignoreDuration, init, started, release,
\* environment, errors and status with the partial's value whenever the partial
\* carries that field, falsy values included; started or errors carrying a
\* non-number is ignored and the session's value is kept.
C15_CarriedFieldsOverwrite ==
  last.op = "updateSession" =>
    /\ \A f \in {"ignoreDuration", "init", "release", "environment", "status"} :
         last.ctx[f] # Undef => session[f] = last.ctx[f]
    /\ \A f \in {"started", "errors"} :
         last.ctx[f] # Undef =>
           session[f] = (IF last.ctx[f].t = "number" THEN last.ctx[f] ELSE last.pre[f])

\* An update or close that gives no status.
NoExplicitStatus ==
  \/ last.op = "updateSession" /\ last.ctx.status = Undef
  \/ last.op = "closeSession" /\ last.status = Undef

\* C16: a session that has left status ok keeps its status through every
\* updateSession call whose partial carries no status and every closeSession
\* call without an explicit status; it does not return to ok.
C16_TerminalStatusKept ==
  (NoExplicitStatus /\ last.pre.status # Ok) =>
    (session.status = last.pre.status /\ session.status # Ok)

\* A crashed session, updated with a partial that carries no status.
C16_Witness ==
  /\ last.op = "updateSession"
  /\ last.ctx.status = Undef
  /\ last.ctx.errors = Num(5)
  /\ last.pre.status = Crashed
  /\ session.status = Crashed

\* The partial carries a status and nothing else.
StatusOnly(ctx) == ctx.status # Undef /\ [ctx EXCEPT !.status = Undef] = EmptyCtx

\* C17 as stated: updateSession(s, {status: X}) on a session whose started
\* equals its timestamp leaves status = X and duration = 0, whatever the clock
\* does.
C17_StatusOnlyZeroDuration ==
  (/\ last.op = "updateSession"
   /\ StatusOnly(last.ctx)
   /\ last.pre.started = last.pre.timestamp) =>
    (session.status = last.ctx.status /\ session.duration = Num(0))

\* C17 amended: updateSession(s, {status: X}) on a session whose started equals
\* its timestamp leaves status = X, sets timestamp to the clock's reading at the
\* call and leaves started; duration is absent if the session's ignoreDuration
\* is true and max(0, now - started) otherwise, which is 0 only if the clock
\* has not advanced past started.
C17_StatusOnlyElapsedDuration ==
  (/\ last.op = "updateSession"
   /\ StatusOnly(last.ctx)
   /\ last.pre.started = last.pre.timestamp) =>
    /\ session.status = last.ctx.status
    /\ session.timestamp = Num(clock)
    /\ session.started = last.pre.started
    /\ session.duration =
         (IF last.pre.ignoreDuration = Bool(TRUE) THEN Undef
          ELSE Num(Max0(clock - last.pre.started.n)))

\* The clock advanced between makeSession and updateSession(s, {status: crashed}).
C17_Witness ==
  /\ last.op = "updateSession"
  /\ last.ctx = [EmptyCtx EXCEPT !.status = Crashed]
  /\ last.pre.started = last.pre.timestamp
  /\ session.status = Crashed
  /\ session.duration = Num(1)

\* The last call was closeSession without a status on a session in a terminal
\* status, or updateSession with an empty partial.
NoStatusMerge ==
  \/ last.op = "closeSession" /\ last.status = Undef /\ last.pre.status # Ok
  \/ last.op = "updateSession" /\ last.ctx = EmptyCtx

\* C18: such a call changes timestamp and duration only: sid, started, status,
\* init, errors, ignoreDuration, did, ipAddress, userAgent, release and
\* environment are left as they were.
C18_NoStatusMergeFrame ==
  NoStatusMerge =>
    /\ \A f \in {"sid", "started", "status", "init", "errors", "ignoreDuration", "did",
                 "ipAddress", "userAgent", "release", "environment"} :
         session[f] = last.pre[f]
    /\ session.timestamp = Num(clock)

\* A crashed session closed without a status after the clock advanced: its
\* timestamp and duration moved.
C18_Witness ==
  /\ last.op = "closeSession"
  /\ last.status = Undef
  /\ last.pre.status = Crashed
  /\ session.status = Crashed
  /\ session.timestamp.n = last.pre.timestamp.n + 1
  /\ session.duration # last.pre.duration

\* C19: did, ipAddress and userAgent are write-once: a call on a session that
\* holds a non-empty value for one of them leaves that value, whatever the
\* partial carries.
C19_WriteOnce ==
  Updated =>
    \A f \in {"did", "ipAddress", "userAgent"} :
      Truthy(last.pre[f]) => session[f] = last.pre[f]

\* A session with an ipAddress is updated with a user carrying another address.
C19_Witness ==
  /\ last.op = "updateSession"
  /\ last.pre.ipAddress = Str("1.1.1.1", 7)
  /\ last.ctx.user.ip_address = Str("2.2.2.2", 7)
  /\ session.ipAddress = Str("1.1.1.1", 7)

\* A session with a did is updated with another did.
C19_WitnessDid ==
  /\ last.op = "updateSession"
  /\ last.pre.did = Str("d1", 2)
  /\ last.ctx.did = Num(7)
  /\ session.did = Str("d1", 2)

\* C20: in every state reached by makeSession followed by updateSession and
\* closeSession calls with any partials, the session's sid has 32 characters
\* (uuid4 returning 32-character ids).
C20_SidAlways32 ==
  last.op # "none" => (session.sid.t = "string" /\ session.sid.n = 32)

\* A session given a well-formed sid and then a 33-character one.
C20_Witness ==
  /\ last.op = "updateSession"
  /\ last.pre.sid = Str("given", 32)
  /\ last.ctx.sid = Str("long", 33)
  /\ session.sid.n = 32
  /\ session.sid # last.pre.sid

====
